---- MODULE Spec2Model ----
(***************************************************************************)
(* A model of wmf/analytics/api/pageviews.py: the date helpers, the        *)
(* timestamps_between generator, and PageviewsClient (article_views,       *)
(* project_views, top_articles, get_concurrent).                           *)
(*                                                                         *)
(* Values of the program are records tagged by "kind":                     *)
(*   None       [kind |-> "none"]                                          *)
(*   date       [kind |-> "date", year, month, day]                        *)
(*   datetime   [kind |-> "datetime", year, month, day, hour]              *)
(*   str        [kind |-> "str", digits |-> <<d1, ..., dn>>]               *)
(*   timedelta  [kind |-> "timedelta", days, hours]                        *)
(*   a raised exception  [kind |-> "error", exc |-> "TypeError" ...]       *)
(***************************************************************************)
EXTENDS Integers, Sequences, FiniteSets, TLC

VARIABLES
    parallelism, \* PageviewsClient.parallelism, set by the constructor
    pc,         \* position of the caller inside the operation under way
    call,       \* the operation called and its arguments
    startDate,  \* article_views / project_views: the resolved start
    endDate,    \* article_views / project_views: the resolved end
    urls,       \* the request URLs built for the batch
    futures,    \* get_concurrent: one future per URL, in submission order
    cursor,     \* get_concurrent: index of the future whose result is awaited
    results,    \* the parsed responses collected so far, in URL order
    output,     \* the mapping under construction (timestamp -> entity -> count)
    ret,        \* what the operation returned or raised
    start,      \* timestamps_between: the local start (advanced in place)
    end,        \* timestamps_between: the local end
    increment,  \* timestamps_between: the local increment
    gen_pc,     \* timestamps_between: position of the generator
    yielded     \* the first MaxYields values the generator has yielded

clientVars == <<parallelism, call, startDate, endDate, urls, futures, cursor, results>>

genVars == <<start, end, increment, gen_pc, yielded>>

vars == <<parallelism, pc, call, startDate, endDate, urls, futures, cursor,
          results, output, ret, start, end, increment, gen_pc, yielded>>

(***************************************************************************)
(* Bounds of the model.                                                    *)
(***************************************************************************)
SpanDays == 1
MaxParallelism == 2
MaxArticles == 3
MaxLimit == 2
MaxRank == 2
MaxYields == SpanDays + 4

\* the default span of days between start and end
DefaultDays == 30

\* the empty mapping
EmptyMap == [k \in {} |-> k]

(***************************************************************************)
(* datetime library arithmetic, as the code's date/datetime values use it. *)
(***************************************************************************)
None == [kind |-> "none"]

Error(e) == [kind |-> "error", exc |-> e]

IsError(v) == "exc" \in DOMAIN v

date(y, m, d) == [kind |-> "date", year |-> y, month |-> m, day |-> d]

datetime(y, m, d, h) ==
    [kind |-> "datetime", year |-> y, month |-> m, day |-> d, hour |-> h]

timedelta(d, h) ==
    [kind |-> "timedelta", days |-> d + (h \div 24), hours |-> h % 24]

is_leap(y) == y % 4 = 0 /\ (y % 100 # 0 \/ y % 400 = 0)

days_in_month(y, m) ==
    IF m = 2 THEN (IF is_leap(y) THEN 29 ELSE 28)
    ELSE IF m \in {4, 6, 9, 11} THEN 30 ELSE 31

RECURSIVE days_before_month(_, _)
days_before_month(y, m) ==
    IF m = 1 THEN 0 ELSE days_before_month(y, m - 1) + days_in_month(y, m - 1)

days_before_year(y) ==
    LET p == y - 1 IN p * 365 + (p \div 4) - (p \div 100) + (p \div 400)

toordinal(v) == days_before_year(v.year) + days_before_month(v.year, v.month) + v.day

\* year, month, day of a proleptic Gregorian ordinal (1 = 0001-01-01)
ord2ymd(ordinal) ==
    LET n0   == ordinal - 1
        n400 == n0 \div 146097
        r400 == n0 % 146097
        n100 == r400 \div 36524
        r100 == r400 % 36524
        n4   == r100 \div 1461
        r4   == r100 % 1461
        n1   == r4 \div 365
        n    == r4 % 365
        y    == n400 * 400 + 1 + n100 * 100 + n4 * 4 + n1
    IN  IF n1 = 4 \/ n100 = 4 THEN <<y - 1, 12, 31>>
        ELSE LET m == CHOOSE k \in 1..12 :
                        /\ days_before_month(y, k) <= n
                        /\ n < days_before_month(y, k) + days_in_month(y, k)
             IN  <<y, m, n - days_before_month(y, m) + 1>>

fromordinal(n) == LET t == ord2ymd(n) IN date(t[1], t[2], t[3])

hour_of(v) == IF v.kind = "datetime" THEN v.hour ELSE 0

\* hours since the midnight before 0001-01-01
total_hours(v) == toordinal(v) * 24 + hour_of(v)

\* v + td: a date moves by td.days only; a datetime by days and hours
Add(v, td) ==
    IF v.kind = "date" THEN fromordinal(toordinal(v) + td.days)
    ELSE LET t == total_hours(v) + td.days * 24 + td.hours
             c == ord2ymd(t \div 24)
         IN  datetime(c[1], c[2], c[3], t % 24)

\* v - td for the only subtraction the code makes (a date or datetime minus days)
Sub(v, td) == Add(v, [kind |-> "timedelta", days |-> 0 - td.days, hours |-> 0])

\* a < b: defined between two dates or two datetimes, a TypeError when mixed
Comparable(a, b) == a.kind = b.kind

\* a <= b, the loop test that would also admit start = end
LessOrEqual(a, b) ==
    \/ a.year < b.year
    \/ a.year = b.year /\ a.month < b.month
    \/ a.year = b.year /\ a.month = b.month /\ a.day < b.day
    \/ a.year = b.year /\ a.month = b.month /\ a.day = b.day
         /\ hour_of(a) <= hour_of(b)

Less(a, b) ==
    \/ a.year < b.year
    \/ a.year = b.year /\ a.month < b.month
    \/ a.year = b.year /\ a.month = b.month /\ a.day < b.day
    \/ a.year = b.year /\ a.month = b.month /\ a.day = b.day
         /\ hour_of(a) < hour_of(b)

(***************************************************************************)
(* parse_date and format_date.  A str is its sequence of decimal digits.   *)
(***************************************************************************)
ljust(s, width, fill) ==
    IF Len(s) >= width THEN s
    ELSE s \o [i \in 1..(width - Len(s)) |-> fill]

\* strptime(s, '%Y%m%d%H') on a string of ten digits
strptime(s) ==
    LET y == s[1] * 1000 + s[2] * 100 + s[3] * 10 + s[4]
        m == s[5] * 10 + s[6]
        d == s[7] * 10 + s[8]
        h == s[9] * 10 + s[10]
    IN  IF /\ Len(s) = 10
           /\ y >= 1
           /\ m \in 1..12
           /\ d >= 1 /\ d <= days_in_month(y, m)
           /\ h \in 0..23
        THEN datetime(y, m, d, h)
        ELSE Error("ValueError")

parse_date(stringDate) ==
    IF stringDate.kind # "str" THEN Error("AttributeError")
    ELSE strptime(ljust(stringDate.digits, 10, 0))

TwoDigits(n) == <<n \div 10, n % 10>>

format_date(d) ==
    [kind |-> "str",
     digits |-> <<d.year \div 1000, (d.year \div 100) % 10,
                  (d.year \div 10) % 10, d.year % 10>>
                \o TwoDigits(d.month) \o TwoDigits(d.day)
                \o TwoDigits(hour_of(d))]

(***************************************************************************)
(* Input values of the model.                                              *)
(***************************************************************************)
FirstDay == date(2023, 1, 31)

Days == {Add(FirstDay, timedelta(k, 0)) : k \in 0..SpanDays}

Hours == {0, 5}

DateTimes == {datetime(d.year, d.month, d.day, h) : d \in Days, h \in Hours}

\* the generator alone is run over one more day
LongDays == {Add(FirstDay, timedelta(k, 0)) : k \in 0..(SpanDays + 1)}

LongDateTimes == {datetime(d.year, d.month, d.day, h) : d \in LongDays, h \in Hours}

\* date.today()
Today == Add(FirstDay, timedelta(SpanDays, 0))

OneDay == timedelta(1, 0)

Increments == {timedelta(0, 1), OneDay}

(***************************************************************************)
(* timestamps_between(start, end, increment): a generator.  gen_pc is      *)
(*   "idle"     no generator exists                                        *)
(*   "test"     at the loop test `while start < end`                       *)
(*   "advance"  suspended at the yield, next to run `start += increment`   *)
(*   "done"     exhausted                                                  *)
(*   "raised"   the loop test raised TypeError                             *)
(* When the consumer is the dict comprehension of article_views or         *)
(* project_views (pc = "skeleton"), each yielded day becomes a key of      *)
(* output mapping every requested entity to None.                          *)
(***************************************************************************)
Record(seq, v) == IF Len(seq) < MaxYields THEN Append(seq, v) ELSE seq

SkeletonRow(entities) == [e \in {entities[i] : i \in 1..Len(entities)} |-> None]

\* d[k] = v on a mapping
Put(d, k, v) == [x \in DOMAIN d \cup {k} |-> IF x = k THEN v ELSE d[x]]

\* lines 22-26: the test holds, the timestamp is yielded
Yield ==
    /\ gen_pc = "test"
    /\ Comparable(start, end)
    /\ Less(start, end)
    /\ LET hour == IF start.kind = "datetime" THEN start.hour ELSE 0
           day  == datetime(start.year, start.month, start.day, hour)
       IN  /\ yielded' = Record(yielded, day)
           /\ output' = IF pc = "skeleton"
                        THEN Put(output, day, SkeletonRow(call.entities))
                        ELSE output
    /\ gen_pc' = "advance"
    /\ UNCHANGED <<clientVars, pc, ret, start, end, increment>>

\* line 27: start += increment
Advance ==
    /\ gen_pc = "advance"
    /\ start' = Add(start, increment)
    /\ gen_pc' = "test"
    /\ UNCHANGED <<clientVars, pc, ret, output, end, increment, yielded>>

\* line 22: the test fails, the generator is exhausted
Exhaust ==
    /\ gen_pc = "test"
    /\ Comparable(start, end)
    /\ ~Less(start, end)
    /\ gen_pc' = "done"
    /\ UNCHANGED <<clientVars, pc, ret, output, start, end, increment, yielded>>

\* line 22: a date compared with a datetime raises TypeError, which the
\* consumer propagates
CompareRaise ==
    /\ gen_pc = "test"
    /\ ~Comparable(start, end)
    /\ gen_pc' = "raised"
    /\ pc' = IF pc = "skeleton" THEN "raised" ELSE pc
    /\ ret' = IF pc = "skeleton" THEN Error("TypeError") ELSE ret
    /\ UNCHANGED <<clientVars, output, start, end, increment, yielded>>

timestamps_between == Yield \/ Advance \/ Exhaust \/ CompareRaise

\* the generator alone, on every start, end and increment
InitTB ==
    /\ parallelism = 1
    /\ pc = "generator"
    /\ startDate = None /\ endDate = None
    /\ urls = <<>> /\ futures = <<>> /\ cursor = 0 /\ results = <<>>
    /\ output = EmptyMap
    /\ ret = None
    /\ start \in LongDays \cup LongDateTimes
    /\ end \in LongDays \cup LongDateTimes
    /\ increment \in Increments
    /\ call = [op |-> "timestamps_between", start |-> start, end |-> end,
                increment |-> increment]
    /\ gen_pc = "test"
    /\ yielded = <<>>

SpecTB == InitTB /\ [][timestamps_between]_vars

\* the generator's consumer keeps asking for the next value
LiveTB == SpecTB /\ WF_vars(timestamps_between)

(***************************************************************************)
(* PageviewsClient.                                                        *)
(***************************************************************************)
endpoints ==
    [article |-> "https://wikimedia.org/api/rest_v1/metrics/pageviews/per-article",
     project |-> "https://wikimedia.org/api/rest_v1/metrics/pageviews/aggregate",
     top     |-> "https://wikimedia.org/api/rest_v1/metrics/pageviews/top"]

Str(ds) == [kind |-> "str", digits |-> ds]

Count(n) == [kind |-> "int", value |-> n]

\* the arguments start and end: absent, a date, or a string YYYYMMDD[HH]
DateArgs ==
    {None} \cup Days
    \cup {Str(SubSeq(format_date(d).digits, 1, 8)) : d \in Days}
    \cup {format_date(t) : t \in DateTimes}

EntityLists == {<<"Cat">>, <<"Cat", "Dog">>}

Granularities == {"hourly", "daily", "monthly"}

\* the items a server may put in the response to the request for entity e
Items(e) ==
    {[timestamp |-> format_date(FirstDay), entity |-> e, views |-> 0],
     [timestamp |-> format_date(FirstDay), entity |-> e, views |-> 7],
     [timestamp |-> format_date(Add(FirstDay, OneDay)), entity |-> e, views |-> 7],
     [timestamp |-> format_date(FirstDay), entity |-> "Stranger", views |-> 7]}

\* the parsed JSON bodies of a batch request: an 'items' array of at most one item
Responses(e) == {[items |-> <<>>]} \cup {[items |-> <<i>>] : i \in Items(e)}

\* requests.get(url) raising, or .json() raising on a body that is not JSON
FetchErrors == {Error("ConnectionError"), Error("JSONDecodeError")}

\* lines 87-93 and 159-165: [startDate, endDate], or the error raised on the way
ResolveDates(startArg, endArg) ==
    LET endOr == IF endArg = None THEN Today ELSE endArg
        endD  == IF endOr.kind # "date" THEN parse_date(endArg) ELSE endOr
    IN  IF IsError(endD) THEN endD
        ELSE LET startOr == IF startArg = None
                            THEN Sub(endD, timedelta(DefaultDays, 0)) ELSE startArg
                 startD  == IF startOr.kind # "date"
                            THEN parse_date(startArg) ELSE startOr
             IN  IF IsError(startD) THEN startD
                 ELSE [kind |-> "resolved", startDate |-> startD, endDate |-> endD]

\* lines 95-101: one URL per article, as the sequence of its path segments
ArticleUrls(project, articles, access, agent, granularity, sd, ed) ==
    [i \in 1..Len(articles) |->
        <<endpoints.article, project, access, agent, articles[i], granularity,
          format_date(sd), format_date(ed)>>]

\* lines 167-173: one URL per project
ProjectUrls(projects, access, agent, granularity, sd, ed) ==
    [i \in 1..Len(projects) |->
        <<endpoints.project, projects[i], access, agent, granularity,
          format_date(sd), format_date(ed)>>]

\* executor.map(f, urls): every URL is submitted before any result is awaited
Submitted(us) == [i \in 1..Len(us) |-> [state |-> "PENDING", result |-> None]]

\* lines 87-102 up to the first wait inside get_concurrent
EnterBatch(args, us, r) ==
    /\ call' = args
    /\ IF IsError(r)
       THEN /\ pc' = "raised"
            /\ ret' = r
            /\ UNCHANGED <<startDate, endDate, urls, futures, cursor>>
       ELSE /\ startDate' = r.startDate
            /\ endDate' = r.endDate
            /\ urls' = us
            /\ futures' = Submitted(us)
            /\ cursor' = 1
            /\ pc' = "collect"
            /\ ret' = ret
    /\ UNCHANGED <<parallelism, results, output, genVars>>

article_views ==
    /\ pc = "idle"
    /\ \E articles \in EntityLists, startArg \in DateArgs, endArg \in DateArgs :
         LET r == ResolveDates(startArg, endArg)
         IN  EnterBatch(
                [op |-> "article_views", project |-> "en.wikipedia",
                 entities |-> articles, granularity |-> "daily",
                 start |-> startArg, end |-> endArg],
                IF IsError(r) THEN <<>>
                ELSE ArticleUrls("en.wikipedia", articles, "all-access",
                                 "all-agents", "daily", r.startDate, r.endDate),
                r)

project_views ==
    /\ pc = "idle"
    /\ \E projects \in EntityLists, granularity \in Granularities,
          startArg \in DateArgs, endArg \in DateArgs :
         LET r == ResolveDates(startArg, endArg)
         IN  EnterBatch(
                [op |-> "project_views", entities |-> projects,
                 granularity |-> granularity,
                 start |-> startArg, end |-> endArg],
                IF IsError(r) THEN <<>>
                ELSE ProjectUrls(projects, "all-access", "all-agents",
                                 granularity, r.startDate, r.endDate),
                r)

(***************************************************************************)
(* get_concurrent: a ThreadPoolExecutor of `parallelism` worker threads    *)
(* runs f(url) = requests.get(url).json() for the queued URLs in order;    *)
(* list(executor.map(...)) awaits the results in URL order.                *)
(***************************************************************************)
InState(futs, st) == {i \in 1..Len(futs) : futs[i].state = st}

\* the requests in flight
InFlight == Cardinality(InState(futures, "RUNNING"))

\* a pool that would start one thread too many
IdleWorkerOrMore(futs, workers) == Cardinality(InState(futs, "RUNNING")) <= workers

\* a worker thread is free to take the next work item
IdleWorker(futs, workers) == Cardinality(InState(futs, "RUNNING")) < workers

\* a worker takes the oldest queued URL and issues the GET
WorkerBegin(i) ==
    /\ pc \in {"collect", "shutdown"}
    /\ i \in InState(futures, "PENDING")
    /\ \A j \in 1..(i - 1) : futures[j].state # "PENDING"
    /\ IdleWorker(futures, parallelism)
    /\ futures' = [futures EXCEPT ![i].state = "RUNNING"]
    /\ UNCHANGED <<parallelism, pc, call, startDate, endDate, urls, cursor,
                   results, output, ret, genVars>>

\* line 244: the GET completes and its body parses as JSON
WorkerFinish(i) ==
    /\ i \in InState(futures, "RUNNING")
    /\ \E body \in Responses(call.entities[i]) :
         futures' = [futures EXCEPT ![i] = [state |-> "FINISHED", result |-> body]]
    /\ UNCHANGED <<parallelism, pc, call, startDate, endDate, urls, cursor,
                   results, output, ret, genVars>>

\* line 244: the GET fails, or its body is not JSON
WorkerFail(i) ==
    /\ i \in InState(futures, "RUNNING")
    /\ \E err \in FetchErrors :
         futures' = [futures EXCEPT ![i] = [state |-> "FINISHED", result |-> err]]
    /\ UNCHANGED <<parallelism, pc, call, startDate, endDate, urls, cursor,
                   results, output, ret, genVars>>

\* the futures not yet awaited are cancelled; one that is running stays running
CancelAfter(futs, k) ==
    [i \in 1..Len(futs) |->
        IF i > k /\ futs[i].state = "PENDING"
        THEN [futs[i] EXCEPT !.state = "CANCELLED"] ELSE futs[i]]

\* line 245, list(executor.map(...)): the awaited future holds a result
CollectResult ==
    /\ pc = "collect"
    /\ cursor <= Len(futures)
    /\ futures[cursor].state = "FINISHED"
    /\ ~IsError(futures[cursor].result)
    /\ results' = Append(results, futures[cursor].result)
    /\ cursor' = cursor + 1
    /\ pc' = IF cursor = Len(futures) THEN "shutdown" ELSE "collect"
    /\ UNCHANGED <<parallelism, call, startDate, endDate, urls, futures,
                   output, ret, genVars>>

\* the exception of the awaited future is swallowed and an empty body stands in
CollectFailureSwallowed ==
    /\ pc = "collect"
    /\ cursor <= Len(futures)
    /\ futures[cursor].state = "FINISHED"
    /\ IsError(futures[cursor].result)
    /\ results' = Append(results, [items |-> <<>>])
    /\ cursor' = cursor + 1
    /\ pc' = IF cursor = Len(futures) THEN "shutdown" ELSE "collect"
    /\ UNCHANGED <<parallelism, call, startDate, endDate, urls, futures,
                   output, ret, genVars>>

\* line 245: the awaited future holds an exception, which list() re-raises
CollectFailure ==
    /\ pc = "collect"
    /\ cursor <= Len(futures)
    /\ futures[cursor].state = "FINISHED"
    /\ IsError(futures[cursor].result)
    /\ ret' = futures[cursor].result
    /\ futures' = CancelAfter(futures, cursor)
    /\ pc' = "shutdown"
    /\ UNCHANGED <<parallelism, call, startDate, endDate, urls, cursor,
                   results, output, genVars>>

\* line 243, leaving the with block: shutdown(wait=True) joins the workers, then
\* get_concurrent returns the list or the exception propagates to the caller
Shutdown ==
    /\ pc = "shutdown"
    /\ InState(futures, "RUNNING") = {}
    /\ InState(futures, "PENDING") = {}
    /\ pc' = IF IsError(ret) THEN "raised" ELSE "fetched"
    /\ UNCHANGED <<clientVars, output, ret, genVars>>

get_concurrent ==
    \/ \E i \in 1..Len(futures) : WorkerBegin(i)
    \/ \E i \in 1..Len(futures) : WorkerFinish(i)
    \/ \E i \in 1..Len(futures) : WorkerFail(i)
    \/ CollectResult
    \/ CollectFailure
    \/ Shutdown

(***************************************************************************)
(* The skeleton and the overlay of article_views and project_views.        *)
(***************************************************************************)
\* lines 104-105: the generator is created and the dict comprehension starts
ArticleSkeleton ==
    /\ pc = "fetched"
    /\ call.op = "article_views"
    /\ start' = startDate
    /\ end' = endDate
    /\ increment' = timedelta(1, 0)
    /\ gen_pc' = "test"
    /\ yielded' = <<>>
    /\ output' = EmptyMap
    /\ pc' = "skeleton"
    /\ UNCHANGED <<clientVars, ret>>

\* lines 176-184: the increment of the granularity, then as above
ProjectSkeleton ==
    /\ pc = "fetched"
    /\ call.op = "project_views"
    /\ call.granularity \in {"hourly", "daily"}
    /\ start' = startDate
    /\ end' = endDate
    /\ increment' = IF call.granularity = "hourly"
                    THEN timedelta(0, 1) ELSE timedelta(1, 0)
    /\ gen_pc' = "test"
    /\ yielded' = <<>>
    /\ output' = EmptyMap
    /\ pc' = "skeleton"
    /\ UNCHANGED <<clientVars, ret>>

\* line 181: timedelta(months=1) raises TypeError, timedelta has no months
MonthlyIncrement ==
    /\ pc = "fetched"
    /\ call.op = "project_views"
    /\ call.granularity = "monthly"
    /\ pc' = "raised"
    /\ ret' = Error("TypeError")
    /\ UNCHANGED <<clientVars, output, genVars>>

\* an overlay that would store a falsy count (0) as None
SetItemFalsy(out, item) ==
    LET k   == parse_date(item.timestamp)
        row == IF k \in DOMAIN out THEN out[k] ELSE EmptyMap
    IN  Put(out, k, Put(row, item.entity,
                        IF item.views = 0 THEN None ELSE Count(item.views)))

\* lines 111 and 190: output[parse_date(item['timestamp'])][item[...]] =
\* item['views'], on a defaultdict(dict)
SetItem(out, item) ==
    LET k   == parse_date(item.timestamp)
        row == IF k \in DOMAIN out THEN out[k] ELSE EmptyMap
    IN  Put(out, k, Put(row, item.entity, Count(item.views)))

RECURSIVE OverlayItems(_, _)
OverlayItems(out, items) ==
    IF items = <<>> THEN out
    ELSE OverlayItems(SetItem(out, Head(items)), Tail(items))

\* lines 109-111 and 188-190
RECURSIVE OverlayResults(_, _)
OverlayResults(out, rs) ==
    IF rs = <<>> THEN out
    ELSE OverlayResults(OverlayItems(out, Head(rs).items), Tail(rs))

\* lines 109-113 and 188-192: the skeleton is complete, the counts are laid
\* over it and the mapping is returned
Overlay ==
    /\ pc = "skeleton"
    /\ gen_pc = "done"
    /\ output' = OverlayResults(output, results)
    /\ pc' = "returned"
    /\ ret' = [kind |-> "dict"]
    /\ UNCHANGED <<clientVars, genVars>>

(***************************************************************************)
(* top_articles.  A parsed JSON object is a record whose fields are the    *)
(* keys present: a response without 'items', an item without 'articles'    *)
(* and an article without 'rank' are records lacking that field.           *)
(***************************************************************************)
RECURSIVE SeqsUpTo(_, _)
SeqsUpTo(S, n) ==
    IF n = 0 THEN {<<>>}
    ELSE LET shorter == SeqsUpTo(S, n - 1)
         IN  shorter \cup {Append(q, x) : q \in shorter, x \in S}

TopEntries ==
    {[article |-> a, rank |-> r] : a \in {"A", "B"}, r \in 1..MaxRank}
    \cup {[article |-> "A"]}

TopItems ==
    {[project |-> "en.wikipedia", articles |-> l] : l \in SeqsUpTo(TopEntries, MaxArticles)}
    \cup {[project |-> "en.wikipedia"]}

SmallItems ==
    {[project |-> "en.wikipedia", articles |-> l] : l \in SeqsUpTo(TopEntries, 1)}
    \cup {[project |-> "en.wikipedia"]}

TopResponses ==
    {[title |-> "Not found."], [items |-> <<>>]}
    \cup {[items |-> <<i>>] : i \in TopItems}
    \cup {[items |-> <<i, j>>] : i \in SmallItems, j \in SmallItems}

\* year, month and day: all given, or all defaulted to today
TopDays == {None, FirstDay}

HasKey(obj, key) == key \in DOMAIN obj

\* list.sort(key=lambda x: x['rank']) is stable: x goes after the entries
\* whose rank is at most its own
RECURSIVE InsertByRank(_, _)
InsertByRank(sorted, x) ==
    IF sorted = <<>> THEN <<x>>
    ELSE IF Head(sorted).rank <= x.rank
         THEN <<Head(sorted)>> \o InsertByRank(Tail(sorted), x)
         ELSE <<x>> \o sorted

RECURSIVE SortByRankFrom(_, _)
SortByRankFrom(sorted, rest) ==
    IF rest = <<>> THEN sorted
    ELSE SortByRankFrom(InsertByRank(sorted, Head(rest)), Tail(rest))

SortByRank(r) == SortByRankFrom(<<>>, r)

\* a slice that would keep one entry too many, r[0:limit + 1]
SliceOneMore(r, limit) == SubSeq(r, 1, IF limit + 1 < Len(r) THEN limit + 1 ELSE Len(r))

\* r[0:limit], for limit >= 0
Slice(r, limit) == SubSeq(r, 1, IF limit < Len(r) THEN limit ELSE Len(r))

\* lines 228-233: the URL of the day asked for
TopUrl(project, access, dayArg) ==
    LET today == Today
        d     == IF dayArg = None THEN today ELSE dayArg
    IN  <<endpoints.top, project, access, SubSeq(format_date(d).digits, 1, 4),
          TwoDigits(d.month), TwoDigits(d.day)>>

\* lines 236-240 on the parsed response
TopResult(result, limit) ==
    IF HasKey(result, "items") /\ Len(result.items) = 1
    THEN IF ~HasKey(result.items[1], "articles") THEN Error("KeyError")
         ELSE LET r == result.items[1].articles
              IN  IF \E i \in 1..Len(r) : ~HasKey(r[i], "rank")
                  THEN Error("KeyError")
                  ELSE [kind |-> "list", value |-> Slice(SortByRank(r), limit)]
    ELSE [kind |-> "list", value |-> <<>>]

top_articles ==
    /\ pc = "idle"
    /\ \E dayArg \in TopDays, limit \in 0..MaxLimit, result \in TopResponses :
         /\ call' = [op |-> "top_articles", project |-> "en.wikipedia",
                     day |-> dayArg, limit |-> limit, response |-> result]
         /\ urls' = <<TopUrl("en.wikipedia", "all-access", dayArg)>>
         /\ ret' = TopResult(result, limit)
         /\ pc' = IF IsError(TopResult(result, limit)) THEN "raised" ELSE "returned"
    /\ UNCHANGED <<parallelism, startDate, endDate, futures, cursor, results,
                   output, genVars>>

(***************************************************************************)
(* The client: constructed, then one operation is called.                  *)
(***************************************************************************)
Init ==
    /\ parallelism \in 1..MaxParallelism
    /\ pc = "idle"
    /\ call = [op |-> "none"]
    /\ startDate = None /\ endDate = None
    /\ urls = <<>> /\ futures = <<>> /\ cursor = 0 /\ results = <<>>
    /\ output = EmptyMap
    /\ ret = None
    /\ start = None /\ end = None /\ increment = None
    /\ gen_pc = "idle"
    /\ yielded = <<>>

Next ==
    \/ article_views
    \/ project_views
    \/ top_articles
    \/ get_concurrent
    \/ ArticleSkeleton
    \/ ProjectSkeleton
    \/ MonthlyIncrement
    \/ timestamps_between
    \/ Overlay

Spec == Init /\ [][Next]_vars

(***************************************************************************)
(* Properties of timestamps_between.                                       *)
(***************************************************************************)
\* (b - a).days
DaysBetween(a, b) == (total_hours(b) - total_hours(a)) \div 24

\* the number of whole or started days from a to b
StartedDays(a, b) == (total_hours(b) - total_hours(a) + 23) \div 24

AtMidnight(v) == datetime(v.year, v.month, v.day, 0)

AtOwnHour(v) == datetime(v.year, v.month, v.day, hour_of(v))

\* a is an earlier instant than b (a date counts as its midnight)
Before(a, b) == total_hours(a) < total_hours(b)

StrictlyIncreasing(seq) ==
    \A i \in 1..Len(seq) : \A j \in 1..Len(seq) : i < j => Before(seq[i], seq[j])

\* the generator ran to exhaustion on start < end with a one-day increment
DailyRunDone ==
    /\ call.op = "timestamps_between"
    /\ call.increment = OneDay
    /\ Comparable(call.start, call.end)
    /\ Before(call.start, call.end)
    /\ gen_pc = "done"

\* C8 (as stated): on every start < end, dates or hour-resolution timestamps,
\* a one-day increment yields exactly (end - start).days entries, strictly
\* increasing, the first equal to start at midnight and none >= end.
C8_AsStated ==
    DailyRunDone =>
        /\ Len(yielded) = DaysBetween(call.start, call.end)
        /\ StrictlyIncreasing(yielded)
        /\ yielded[1] = AtMidnight(call.start)
        /\ \A i \in 1..Len(yielded) : Before(yielded[i], call.end)

\* C8 (amended): on every start < end, a one-day increment yields one entry per
\* started day from start to end, which is (end - start).days entries when both
\* are dates or carry the same hour; the entries are strictly increasing, the
\* first is start with its own hour (midnight for a date) and none is >= end.
C8_Amended ==
    DailyRunDone =>
        /\ Len(yielded) = StartedDays(call.start, call.end)
        /\ hour_of(call.start) = hour_of(call.end)
             => Len(yielded) = DaysBetween(call.start, call.end)
        /\ StrictlyIncreasing(yielded)
        /\ yielded[1] = AtOwnHour(call.start)
        /\ \A i \in 1..Len(yielded) : Before(yielded[i], call.end)

\* a finished daily run over hour-resolution timestamps that yielded two days
C8_Witness ==
    /\ DailyRunDone
    /\ call.start.kind = "datetime"
    /\ call.start.hour # 0
    /\ call.end.hour = 0
    /\ Len(yielded) >= 2

\* C10: whatever start, end and increment (1 hour, 1 day), the generator
\* terminates: it is eventually exhausted (or has raised).
C10_Terminates == <>(gen_pc \in {"done", "raised"})

(***************************************************************************)
(* Properties of article_views and project_views.                          *)
(***************************************************************************)
Batch == call.op \in {"article_views", "project_views"}

Range(seq) == {seq[i] : i \in 1..Len(seq)}

\* the timestamps from sd (inclusive) to ed (exclusive) in steps of inc
ExpectedKeys(sd, ed, inc) ==
    LET step == inc.days * 24 + inc.hours
        n    == (total_hours(ed) - total_hours(sd) + step - 1) \div step
    IN  {AtOwnHour(Add(sd, timedelta(k * inc.days, k * inc.hours))) : k \in 0..(n - 1)}

RECURSIVE AllItems(_)
AllItems(rs) == IF rs = <<>> THEN <<>> ELSE Head(rs).items \o AllItems(Tail(rs))

\* the items of the collected responses that carry timestamp k and entity e
Hits(k, e) ==
    LET Carries(item) == parse_date(item.timestamp) = k /\ item.entity = e
    IN  SelectSeq(AllItems(results), Carries)

\* C1 (as stated): for start < end, the mapping article_views returns has exactly one key per
\* day in [start, end) and each value exactly one entry per requested article;
\* an item whose timestamp or article is not in the skeleton adds nothing.
C1_AsStated ==
    (call.op = "article_views" /\ pc = "returned" /\ Before(startDate, endDate)) =>
        /\ DOMAIN output = ExpectedKeys(startDate, endDate, OneDay)
        /\ \A k \in DOMAIN output : DOMAIN output[k] = Range(call.entities)

\* C2: in the mapping article_views or project_views returns, every skeleton
\* cell is present, a cell holds None exactly when no response item carried its
\* timestamp and entity, and otherwise holds the count of the last such item:
\* a returned 0 is stored as 0, not as None.
C2_NoneIffNoItem ==
    (Batch /\ pc = "returned") =>
        /\ \A k \in ExpectedKeys(startDate, endDate, increment) :
             /\ k \in DOMAIN output
             /\ Range(call.entities) \subseteq DOMAIN output[k]
        /\ \A k \in DOMAIN output : \A e \in DOMAIN output[k] :
             LET hits == Hits(k, e)
             IN  /\ output[k][e] = None <=> hits = <<>>
                 /\ hits # <<>> => output[k][e] = Count(hits[Len(hits)].views)

\* a returned mapping with a skeleton cell left unknown and one holding 0
C2_Witness ==
    /\ Batch /\ pc = "returned"
    /\ \E k \in ExpectedKeys(startDate, endDate, increment) :
         \E e \in Range(call.entities) : \E f \in Range(call.entities) :
             /\ output[k][e] = Count(0)
             /\ output[k][f] = None

Failed(i) == futures[i].state = "FINISHED" /\ IsError(futures[i].result)

Succeeded(i) == futures[i].state = "FINISHED" /\ ~IsError(futures[i].result)

\* C3: a batch is all-or-nothing.  The caller gets past get_concurrent, and so
\* to a returned mapping, only when every dispatched request has completed
\* successfully; once a request has failed the call ends by raising the failure
\* of the first failed request, with no worker left running and no mapping.
C3_AllOrNothing ==
    Batch =>
        /\ pc \in {"fetched", "skeleton", "returned"} =>
             /\ \A i \in 1..Len(futures) : Succeeded(i)
             /\ Len(futures) = Len(call.entities)
             /\ results = [i \in 1..Len(futures) |-> futures[i].result]
        /\ (pc \in {"returned", "raised"} /\ \E i \in 1..Len(futures) : Failed(i)) =>
             /\ pc = "raised"
             /\ \E i \in 1..Len(futures) :
                  /\ Failed(i)
                  /\ \A j \in 1..(i - 1) : Succeeded(j)
                  /\ ret = futures[i].result
             /\ InState(futures, "RUNNING") = {}
             /\ output = EmptyMap

\* a batch that raised although one of its requests had succeeded
C3_Witness ==
    /\ Batch /\ pc = "raised"
    /\ \E i \in 1..Len(futures) : Failed(i)
    /\ \E i \in 1..Len(futures) : Succeeded(i)

\* C4: the requests in flight never exceed the constructor's parallelism.
C4_BoundedInFlight == InFlight <= parallelism

\* every worker is busy while a further request waits in the queue
C4_Witness ==
    /\ InFlight = parallelism
    /\ InState(futures, "PENDING") # {}

\* C5 (as stated): whatever the forms of start and end, the call resolves end
\* to today when absent and start to 30 days before the resolved end when
\* absent, and builds the request URLs without failing.
C5_AsStated ==
    (Batch /\ pc # "idle") =>
        /\ Len(urls) = Len(call.entities)
        /\ call.end = None => endDate = Today
        /\ call.start = None => startDate = Sub(endDate, timedelta(DefaultDays, 0))

\* v moved on by k calendar months
AddMonths(v, k) ==
    LET m == (v.month - 1) + k
        y == v.year + (m \div 12)
    IN  datetime(y, (m % 12) + 1, v.day, hour_of(v))

\* the timestamps from sd (inclusive) to ed (exclusive) in calendar months
MonthKeys(sd, ed) ==
    {AddMonths(sd, k) : k \in {j \in 0..12 : Before(AddMonths(sd, j), ed)}}

\* C7 (as stated): project_views with granularity 'monthly', its requests all
\* answered, returns a mapping whose skeleton keys step from start by
\* calendar months.
C7_AsStated ==
    (/\ call.op = "project_views" /\ call.granularity = "monthly"
     /\ pc \in {"returned", "raised"}
     /\ Len(futures) = Len(call.entities)
     /\ \A i \in 1..Len(futures) : Succeeded(i)
     /\ Comparable(startDate, endDate)) =>
        /\ pc = "returned"
        /\ MonthKeys(startDate, endDate) \subseteq DOMAIN output

(***************************************************************************)
(* Properties of top_articles.                                             *)
(***************************************************************************)
TopDone == call.op = "top_articles" /\ pc \in {"returned", "raised"}

ItemCount(result) == IF HasKey(result, "items") THEN Len(result.items) ELSE 0

AscendingByRank(r) ==
    \A i \in 1..Len(r) : \A j \in 1..Len(r) : i < j => r[i].rank <= r[j].rank

\* C6: what top_articles returns is sorted ascending by rank and no longer
\* than limit, and it is the empty sequence whenever the response does not
\* hold exactly one item.
C6_SortedAndLimited ==
    TopDone =>
        /\ pc = "returned" =>
             /\ AscendingByRank(ret.value)
             /\ Len(ret.value) <= call.limit
        /\ ItemCount(call.response) # 1 =>
             /\ pc = "returned"
             /\ ret.value = <<>>

\* a response of three articles out of rank order, cut to a limit of two
C6_Witness ==
    /\ TopDone /\ pc = "returned"
    /\ call.limit = 2
    /\ Len(ret.value) = 2
    /\ Len(call.response.items[1].articles) = 3
    /\ ~AscendingByRank(call.response.items[1].articles)

Malformed(result) ==
    \/ ItemCount(result) # 1
    \/ ~HasKey(result.items[1], "articles")
    \/ \E i \in 1..Len(result.items[1].articles) :
         ~HasKey(result.items[1].articles[i], "rank")

\* C9 (as stated): top_articles raises no error on a missing or malformed
\* response structure; it returns an empty sequence.
C9_AsStated ==
    TopDone =>
        /\ pc = "returned"
        /\ Malformed(call.response) => ret.value = <<>>

====
